---- MODULE Spec2Model ----
(***************************************************************************)
(* The data generator and the canned queries of app.py, over the four      *)
(* tables of its schema (customer, order, product, order_product) and the  *)
(* one process-wide db.session.                                            *)
(*                                                                         *)
(* Time is counted in whole days from the start of the current year.       *)
(* Batch sizes and value domains are scaled down (see the bounds below);   *)
(* the number of products per batch stays >= the largest sample size, as   *)
(* in the source (10 >= 3).                                                *)
(*                                                                         *)
(* Customer carries only its email and Product only name and price: the    *)
(* remaining columns (names, address, city, postcode, coupon_code) are     *)
(* drawn independently, are never NULL-constrained into failure and are    *)
(* read by none of the operations modelled here.                           *)
(***************************************************************************)
EXTENDS Integers, Sequences, FiniteSets, Bags, TLC

\* ---- bounds of the model ----
\* customers per add_customers batch (range(100), scaled)
NumCustomers == 1
\* distinct values fake.email() can return (scaled)
NumEmails == 2
\* cap on the customer table
MaxCustomers == 2
\* orders per add_orders batch (range(1000), scaled)
NumOrders == 1
\* cap on the order table
MaxOrders == 1
\* products per add_products batch (range(10), scaled, kept >= MaxK)
NumProducts == 4
\* distinct values fake.color_name() can return (scaled)
NumNames == 4
\* cap on the product table
MaxProducts == 4
\* upper limit of random.randint(10, 100), scaled
MaxPrice == 10
\* last day the clock reaches
MaxNow == 2

\* ---- program constants ----
MinPrice == 10
MinK == 1
MaxK == 3
YearStart == 0
\* NULL in a nullable column / Python None
None == -1

VARIABLES
    tables,         \* db.create_all() has created the tables
    Customer,       \* committed customer rows, index = id: [email]
    Order,          \* committed order rows, index = id
    Product,        \* committed product rows, index = id: [name, price]
    order_product,  \* committed association rows: a bag of <<order_id, product_id>>
    session,        \* db.session: association rows added but not yet committed
    now,            \* the clock, in days
    pc,             \* position inside create_random_data, or idle/done/failed
    last,           \* the last function run and how it ended
    before,         \* table sizes when the current create_random_data began
    steps,          \* the steps the current create_random_data has run
    printed         \* what the last query printed

vars == <<tables, Customer, Order, Product, order_product, session, now, pc,
          last, before, steps, printed>>

db == <<Customer, Order, Product, order_product>>

Range(s) == {s[i] : i \in DOMAIN s}

Min(S) == CHOOSE x \in S : \A y \in S : x <= y

NoSnapshot == [customers |-> 0, orders |-> 0, products |-> 0]

NothingPrinted == [query |-> "none", arg |-> 0, out |-> <<>>]

Idle == pc \in {"idle", "done", "failed"}

\* ---- schema constraints, checked by the storage layer at flush ----

\* the email column declared without unique=True
UniqueEmailUnchecked(rows) == TRUE

\* Customer.email is unique=True
UniqueEmail(rows) ==
    \A i, j \in DOMAIN rows : rows[i].email = rows[j].email => i = j

\* Product.name is unique=True
UniqueName(rows) ==
    \A i, j \in DOMAIN rows : rows[i].name = rows[j].name => i = j

\* (order_id, product_id) is the primary key of order_product
PrimaryKeyOK(assoc) ==
    \A r \in BagToSet(assoc) : CopiesIn(r, assoc) = 1

\* the rows of order o the session sees: committed ones and its own pending ones
Loaded(o) ==
    {p \in 1..Len(Product) : BagIn(<<o, p>>, order_product) \/ <<o, p>> \in session}

\* ---- db.session.commit() ----
\* Flushes the new rows and whatever the session still holds, in one
\* transaction: either everything is written or, on an error of the storage
\* layer, the transaction is rolled back and the session emptied.
CommitOutcome(newC, newP, rows) ==
    IF ~tables THEN "OperationalError"
    ELSE IF /\ UniqueEmail(Customer \o newC)
            /\ UniqueName(Product \o newP)
            /\ PrimaryKeyOK(order_product (+) SetToBag(rows))
         THEN "ok"
         ELSE "IntegrityError"

Persist(newC, newO, newP, rows) ==
    /\ Customer' = Customer \o newC
    /\ Order' = Order \o newO
    /\ Product' = Product \o newP
    /\ order_product' = order_product (+) SetToBag(rows)

\* a commit after every record, the failing record ending the batch
commitEachRecord(newC, newO, newP, rows) ==
    /\ session' = {}
    /\ IF CommitOutcome(newC, newP, rows) = "ok"
       THEN Persist(newC, newO, newP, rows)
       ELSE IF tables /\ newP # <<>>
            THEN Persist(<<>>, <<>>, <<Head(newP)>>, {})
            ELSE UNCHANGED db

commit(newC, newO, newP, rows) ==
    /\ session' = {}
    /\ IF CommitOutcome(newC, newP, rows) = "ok"
       THEN Persist(newC, newO, newP, rows)
       ELSE UNCHANGED db

\* ---- how a function returns, standalone or as a step of create_random_data ----
\* the calls of create_random_data with add_customers left out
NextStepNoCustomers(op) ==
    CASE op = "create_all" -> "add_orders"
      [] op = "add_customers" -> "add_orders"
      [] op = "add_orders" -> "add_products"
      [] op = "add_products" -> "add_order_products"
      [] op = "add_order_products" -> "done"

\* the calls of create_random_data with add_products before add_orders
NextStepSwapped(op) ==
    CASE op = "create_all" -> "add_customers"
      [] op = "add_customers" -> "add_products"
      [] op = "add_products" -> "add_orders"
      [] op = "add_orders" -> "add_order_products"
      [] op = "add_order_products" -> "done"

NextStep(op) ==
    CASE op = "create_all" -> "add_customers"
      [] op = "add_customers" -> "add_orders"
      [] op = "add_orders" -> "add_products"
      [] op = "add_products" -> "add_order_products"
      [] op = "add_order_products" -> "done"

Return(op, outcome) ==
    /\ last' = [op |-> op, outcome |-> outcome]
    /\ IF pc = op
       THEN /\ pc' = IF outcome = "ok" THEN NextStep(op) ELSE "failed"
            /\ steps' = Append(steps, op)
            /\ UNCHANGED before
       ELSE /\ pc' = "idle"
            /\ steps' = <<>>
            /\ before' = NoSnapshot

Callable(op) == Idle \/ pc = op

\* ---- db.create_all(), run on its own ----
create_all ==
    /\ Idle
    /\ tables' = TRUE
    /\ last' = [op |-> "create_all", outcome |-> "ok"]
    /\ pc' = "idle"
    /\ steps' = <<>>
    /\ before' = NoSnapshot
    /\ UNCHANGED <<db, session, now, printed>>

\* ---- add_customers ----
CustomerBatches ==
    [1..NumCustomers -> {[email |-> e] : e \in 1..NumEmails}]

add_customers ==
    /\ Callable("add_customers")
    /\ Len(Customer) + NumCustomers <= MaxCustomers
    /\ \E batch \in CustomerBatches :
          /\ commit(batch, <<>>, <<>>, session)
          /\ Return("add_customers", CommitOutcome(batch, <<>>, session))
    /\ UNCHANGED <<tables, now, printed>>

\* ---- add_orders ----
date_time_this_year == YearStart..now

date_time_between(start_date) == start_date..now

\* the shipped date drawn without start_date=ordered_date
ShippedAnyDate(ordered_date) == {None} \cup date_time_this_year

ShippedChoices(ordered_date) == {None} \cup date_time_between(ordered_date)

DeliveredChoices(shipped_date) ==
    IF shipped_date # None
    THEN {None} \cup date_time_between(shipped_date)
    ELSE {None}

\* a selection that falls back to customer id 1 on an empty list
random_choice_default(ids) ==
    IF ids = {}
    THEN {[raised |-> FALSE, picked |-> 1]}
    ELSE {[raised |-> FALSE, picked |-> c] : c \in ids}

\* random.choice(customers): IndexError on an empty list
random_choice(ids) ==
    IF ids = {}
    THEN {[raised |-> TRUE, picked |-> 0]}
    ELSE {[raised |-> FALSE, picked |-> c] : c \in ids}

\* one pass of the loop body: the Order it builds, or the exception it raises
OrderDraws(ids) ==
    UNION { UNION { UNION { {
        [raised |-> ch.raised,
         row |-> [customer_id |-> ch.picked, order_date |-> od,
                  shipped_date |-> sd, delivered_date |-> dd]]
            : dd \in DeliveredChoices(sd) }
            : sd \in ShippedChoices(od) }
            : od \in date_time_this_year }
            : ch \in random_choice(ids) }

add_orders ==
    /\ Callable("add_orders")
    /\ Len(Order) + NumOrders <= MaxOrders
    /\ IF ~tables
       THEN /\ Return("add_orders", "OperationalError")
            /\ UNCHANGED <<db, session>>
       ELSE \E draws \in [1..NumOrders -> OrderDraws(DOMAIN Customer)] :
              IF \E i \in 1..NumOrders : draws[i].raised
              THEN /\ Return("add_orders", "IndexError")
                   /\ UNCHANGED <<db, session>>
              ELSE /\ commit(<<>>, [i \in 1..NumOrders |-> draws[i].row],
                             <<>>, session)
                   /\ Return("add_orders", CommitOutcome(<<>>, <<>>, session))
    /\ UNCHANGED <<tables, now, printed>>

\* ---- add_products ----
ProductBatches ==
    [1..NumProducts ->
        {[name |-> n, price |-> p] : n \in 1..NumNames, p \in MinPrice..MaxPrice}]

add_products ==
    /\ Callable("add_products")
    /\ Len(Product) + NumProducts <= MaxProducts
    /\ \E batch \in ProductBatches :
          /\ commit(<<>>, <<>>, batch, session)
          /\ Return("add_products", CommitOutcome(<<>>, batch, session))
    /\ UNCHANGED <<tables, now, printed>>

\* ---- add_order_products ----
\* a sample of k + 1 products
random_sample_one_more(k) ==
    IF k + 1 > Len(Product)
    THEN {[raised |-> TRUE, picked |-> {}]}
    ELSE {[raised |-> FALSE, picked |-> S] :
             S \in {T \in SUBSET (1..Len(Product)) : Cardinality(T) = k + 1}}

\* random.sample(products, k): k distinct products, ValueError when k > len(products)
random_sample(k) ==
    IF k > Len(Product)
    THEN {[raised |-> TRUE, picked |-> {}]}
    ELSE {[raised |-> FALSE, picked |-> S] :
             S \in {T \in SUBSET (1..Len(Product)) : Cardinality(T) = k}}

\* order.products.extend(purchased_products): the unit of work inserts a row
\* for each product of the list that the loaded collection did not hold
Extended(o, purchased) == {<<o, p>> : p \in purchased \ Loaded(o)}

add_order_products ==
    /\ Callable("add_order_products")
    /\ IF ~tables
       THEN /\ Return("add_order_products", "OperationalError")
            /\ UNCHANGED <<db, session>>
       ELSE \E draws \in [DOMAIN Order ->
                            UNION {random_sample(k) : k \in MinK..MaxK}] :
              LET failing == {o \in DOMAIN Order : draws[o].raised}
                  reached == IF failing = {} THEN DOMAIN Order
                             ELSE 1..(Min(failing) - 1)
                  rows == UNION {Extended(o, draws[o].picked) : o \in reached}
              IN  IF failing # {}
                  THEN /\ session' = session \cup rows
                       /\ UNCHANGED db
                       /\ Return("add_order_products", "ValueError")
                  ELSE /\ commit(<<>>, <<>>, <<>>, session \cup rows)
                       /\ Return("add_order_products",
                                 CommitOutcome(<<>>, <<>>, session \cup rows))
    /\ UNCHANGED <<tables, now, printed>>

\* ---- create_random_data: entry and db.create_all(); the four steps follow ----
create_random_data ==
    /\ Idle
    /\ tables' = TRUE
    /\ pc' = NextStep("create_all")
    /\ steps' = <<"create_all">>
    /\ before' = [customers |-> Len(Customer), orders |-> Len(Order),
                  products |-> Len(Product)]
    /\ last' = [op |-> "create_all", outcome |-> "ok"]
    /\ UNCHANGED <<db, session, now, printed>>

\* ---- the clock ----
Tick ==
    /\ now < MaxNow
    /\ now' = now + 1
    /\ UNCHANGED <<tables, db, session, pc, last, before, steps, printed>>

Init ==
    /\ tables = FALSE
    /\ Customer = <<>>
    /\ Order = <<>>
    /\ Product = <<>>
    /\ order_product = EmptyBag
    /\ session = {}
    /\ now = YearStart
    /\ pc = "idle"
    /\ last = [op |-> "none", outcome |-> "ok"]
    /\ before = NoSnapshot
    /\ steps = <<>>
    /\ printed = NothingPrinted

\* The generator, every function callable at any time. The clock stands still
\* here: the dates the orders carry play no part in what the other steps do.
Next ==
    \/ create_all
    \/ add_customers
    \/ add_orders
    \/ add_products
    \/ add_order_products
    \/ create_random_data

Spec == Init /\ [][Next]_vars

\* Customers and orders alone, while the days pass.
NextOrders ==
    \/ create_all
    \/ add_customers
    \/ add_orders
    \/ Tick

SpecOrders == Init /\ [][NextOrders]_vars

\* ---- the queries ----
\* A query prints its result; `printed.out` holds it as a sequence: a scalar
\* as a sequence of one number, a NULL scalar (Python None) as the empty
\* sequence, a result set as the sequence of the ids of its rows.

\* the association rows a query of this session reads: the committed ones and
\* the ones the session flushes before it queries
VisibleRows == order_product (+) SetToBag(session)

\* JOIN order_product JOIN order JOIN product: the association rows whose
\* order and product exist, each as often as the table holds it
JoinRows ==
    [r \in {x \in BagToSet(VisibleRows) :
                x[1] \in DOMAIN Order /\ x[2] \in DOMAIN Product}
        |-> VisibleRows[r]]

\* func.sum(Product.price) over joined rows
RECURSIVE SumPrice(_)
SumPrice(rows) ==
    IF BagToSet(rows) = {} THEN 0
    ELSE LET r == CHOOSE x \in BagToSet(rows) : TRUE
         IN  rows[r] * Product[r[2]].price
               + SumPrice([x \in BagToSet(rows) \ {r} |-> rows[x]])

\* a window that takes in the order dated exactly now - x_days
InWindowInclusive(order_date, x_days) == order_date >= now - x_days

\* Order.order_date > (datetime.now() - timedelta(days=x_days))
InWindow(order_date, x_days) == order_date > now - x_days

\* .filter(Order.order_date > ...)
RevenueRows(x_days) ==
    [r \in {x \in BagToSet(JoinRows) :
                InWindow(Order[x[1]].order_date, x_days)}
        |-> JoinRows[r]]

\* .scalar() of SUM: NULL when no row is summed
revenue_result(x_days) ==
    IF BagToSet(RevenueRows(x_days)) = {}
    THEN <<>>
    ELSE <<SumPrice(RevenueRows(x_days))>>

\* a HAVING clause with >= for >
HavingAtLeast(total, amount) == total >= amount

\* .having(db.func.sum(Product.price) > amount)
Having(total, amount) == total > amount

RECURSIVE Ascending(_)
Ascending(S) ==
    IF S = {} THEN <<>> ELSE <<Min(S)>> \o Ascending(S \ {Min(S)})

\* the joined rows of the group of customer c
CustomerRows(c) ==
    [r \in {x \in BagToSet(JoinRows) : Order[x[1]].customer_id = c}
        |-> JoinRows[r]]

\* Customer JOIN order JOIN order_product JOIN product GROUP BY customer
\* HAVING ...: one group per customer that has a joined row
spend_result(amount) ==
    Ascending({c \in DOMAIN Customer :
                 /\ BagToSet(CustomerRows(c)) # {}
                 /\ Having(SumPrice(CustomerRows(c)), amount)})

\* ORDER BY order_date ASC
ComesFirstAscending(a, b) == Order[a].order_date <= Order[b].order_date

\* ORDER BY order_date DESC: row a stays ahead of the later-read row b
ComesFirst(a, b) == Order[a].order_date >= Order[b].order_date

InsertOrdered(sorted, o) ==
    LET k == Cardinality({i \in DOMAIN sorted : ComesFirst(sorted[i], o)})
    IN  SubSeq(sorted, 1, k) \o <<o>> \o SubSeq(sorted, k + 1, Len(sorted))

RECURSIVE OrderBy(_)
OrderBy(ids) ==
    IF ids = <<>> THEN <<>>
    ELSE InsertOrdered(OrderBy(SubSeq(ids, 1, Len(ids) - 1)), ids[Len(ids)])

\* Order.query.filter(Order.shipped_date.is_(None))
    \* .order_by(Order.order_date.desc()).all()
pending_result ==
    LET unshipped(o) == Order[o].shipped_date = None
    IN  OrderBy(SelectSeq([i \in DOMAIN Order |-> i], unshipped))

\* Customer.query.count()
CustomerCount == Len(Customer)

Output(query, arg, out) ==
    /\ tables
    /\ Idle
    /\ printed' = [query |-> query, arg |-> arg, out |-> out]
    /\ UNCHANGED <<tables, db, session, now, pc, last, before, steps>>

\* ---- inputs of the queries ----
Days == 0..3

Amounts == {-1, 10, 20, 30}

get_pending_orders == Output("get_pending_orders", 0, pending_result)

how_many_customers == Output("how_many_customers", 0, <<CustomerCount>>)

revenue_in_last_x_days ==
    \E x_days \in Days :
        Output("revenue_in_last_x_days", x_days, revenue_result(x_days))

get_customers_who_have_purchased_x_dollars ==
    \E amount \in Amounts :
        Output("get_customers_who_have_purchased_x_dollars", amount,
              spend_result(amount))

\* ---- the databases the queries are run on ----
\* day of the year the queries run on
QNow == 2
QMaxCustomers == 2
QMaxOrders == 2
QMaxProducts == 2

QPrices == {MinPrice, MinPrice + MinPrice}

QCustomerTables ==
    {[i \in 1..n |-> [email |-> i]] : n \in 0..QMaxCustomers}

QOrderRows(ids) ==
    {[customer_id |-> c, order_date |-> od, shipped_date |-> sd,
      delivered_date |-> None] :
        c \in ids, od \in YearStart..QNow, sd \in {None, QNow}}

QOrderTables(ids) ==
    UNION {[1..n -> QOrderRows(ids)] : n \in 0..QMaxOrders}

QProductTables ==
    UNION {{[i \in 1..n |-> [name |-> i, price |-> price[i]]] :
               price \in [1..n -> QPrices]} : n \in 0..QMaxProducts}

InitQuery ==
    /\ tables = TRUE
    /\ now = QNow
    /\ Customer \in QCustomerTables
    /\ Order \in QOrderTables(DOMAIN Customer)
    /\ Product \in QProductTables
    /\ order_product \in
          {SetToBag(S) : S \in SUBSET ((DOMAIN Order) \X (DOMAIN Product))}
    /\ session = {}
    /\ pc = "idle"
    /\ last = [op |-> "none", outcome |-> "ok"]
    /\ before = NoSnapshot
    /\ steps = <<>>
    /\ printed = NothingPrinted

\* The queries, on every database of the bounded set.
NextQuery ==
    \/ get_pending_orders
    \/ how_many_customers
    \/ revenue_in_last_x_days
    \/ get_customers_who_have_purchased_x_dollars

SpecQuery == InitQuery /\ [][NextQuery]_vars

\* ---- what the claims speak of ----

\* the committed association rows of order o, as a bag
RowsOf(assoc, o) ==
    [r \in {x \in BagToSet(assoc) : x[1] = o} |-> assoc[r]]

\* how many association rows order o has
RowCount(assoc, o) == BagCardinality(RowsOf(assoc, o))

Completed(op) == last = [op |-> op, outcome |-> "ok"]

PipelineOrder ==
    <<"create_all", "add_customers", "add_orders", "add_products",
      "add_order_products">>

\* C1: every order add_orders has created has its delivered date only with a
\* shipped date, delivered date >= shipped date, and a shipped date >= the
\* order date.
C1_DatesOrdered ==
    \A i \in DOMAIN Order :
        /\ Order[i].delivered_date # None =>
              /\ Order[i].shipped_date # None
              /\ Order[i].delivered_date >= Order[i].shipped_date
        /\ Order[i].shipped_date # None =>
              Order[i].shipped_date >= Order[i].order_date

\* an order delivered after it was shipped, shipped after it was ordered
C1_Witness ==
    \E i \in DOMAIN Order :
        /\ Order[i].delivered_date # None
        /\ Order[i].delivered_date > Order[i].shipped_date
        /\ Order[i].shipped_date > Order[i].order_date

\* C2 as stated: in the state add_order_products leaves when it completes
\* with products existing, every order has between 1 and 3 association rows
\* and no row twice, however often it has run.
C2_AsStated ==
    (Completed("add_order_products") /\ Product # <<>>) =>
        \A o \in DOMAIN Order :
            /\ RowCount(order_product, o) \in MinK..MaxK
            /\ \A p \in DOMAIN Product : CopiesIn(<<o, p>>, order_product) <= 1

\* C2 amended: a completed add_order_products with products existing leaves
\* every order with at least one association row and no row twice; it adds at
\* most 3 rows to an order, so an order that had none has between 1 and 3.
C2_PerInvocation ==
    [][ ( /\ last'.op = "add_order_products"
          /\ last'.outcome = "ok"
          /\ now' = now
          /\ Product # <<>> ) =>
        \A o \in DOMAIN Order :
            /\ RowCount(order_product', o) >= MinK
            /\ \A p \in DOMAIN Product : CopiesIn(<<o, p>>, order_product') <= 1
            /\ RowCount(order_product', o) <= Cardinality(Loaded(o)) + MaxK
            /\ Loaded(o) = {} => RowCount(order_product', o) \in MinK..MaxK
      ]_vars

\* an order linked for the first time, with 3 products
C2_Witness ==
    /\ Completed("add_order_products")
    /\ \E o \in DOMAIN Order : RowCount(order_product, o) = MaxK

\* C3 as stated: after a completed create_random_data the customer count is
\* exactly the batch size, whatever the database held before.
C3_AsStated ==
    pc = "done" => CustomerCount = NumCustomers

\* C3 amended: after a completed create_random_data the customer count is the
\* count before the call plus the batch size.
C3_CountGrowsByBatch ==
    pc = "done" => CustomerCount = before.customers + NumCustomers

\* create_random_data completed on a database that already held customers
C3_Witness ==
    /\ pc = "done"
    /\ before.customers = NumCustomers
    /\ CustomerCount = NumCustomers + NumCustomers

C4_Committed ==
    /\ steps = SubSeq(PipelineOrder, 1, Len(steps))
    /\ pc \notin {"idle", "done", "failed"} =>
          /\ session = {}
          /\ Len(steps) < Len(PipelineOrder)
          /\ pc = PipelineOrder[Len(steps) + 1]
    /\ pc \in {"add_orders", "add_products", "add_order_products", "done"} =>
          Len(Customer) = before.customers + NumCustomers
    /\ pc \in {"add_products", "add_order_products", "done"} =>
          Len(Order) = before.orders + NumOrders
    /\ pc \in {"add_order_products", "done"} =>
          Len(Product) = before.products + NumProducts
    /\ pc = "done" =>
          /\ steps = PipelineOrder
          /\ session = {}
          /\ \A o \in DOMAIN Order : RowCount(order_product, o) >= MinK

C4_StopsOnFailure ==
    /\ (pc \notin {"idle", "done", "failed"} /\ last'.outcome # "ok") =>
          pc' = "failed"
    /\ (steps' # steps /\ steps' # <<>> /\ steps' # <<"create_all">>) =>
          /\ pc \notin {"idle", "done", "failed"}
          /\ last'.outcome = "ok" \/ pc' = "failed"
          /\ steps' = Append(steps, pc)

\* C4: create_random_data runs create_all, add_customers, add_orders,
\* add_products, add_order_products in that order; when a step starts, the
\* records of the steps before it are committed and the session holds nothing
\* uncommitted; after a failed step no further step of the call runs.
C4_StrictOrder ==
    [] C4_Committed /\ [][C4_StopsOnFailure]_vars

\* a create_random_data that ran all five steps
C4_Witness ==
    /\ pc = "done"
    /\ steps = PipelineOrder
    /\ order_product # EmptyBag

\* C8: add_orders run while no customer exists does not complete, raises
\* IndexError at the customer selection when the tables exist, and leaves
\* every table and the session as they were.
C8_NoCustomersNoOrders ==
    [][ ( /\ last'.op = "add_orders"
          /\ now' = now
          /\ Customer = <<>> ) =>
        /\ last'.outcome # "ok"
        /\ tables => last'.outcome = "IndexError"
        /\ UNCHANGED <<db, session, tables>>
      ]_vars

\* add_orders has just failed on an initialised, customerless database
C8_Witness ==
    /\ last = [op |-> "add_orders", outcome |-> "IndexError"]
    /\ tables
    /\ Customer = <<>>
    /\ Order = <<>>

\* C9: a generation step persists its records as one batch: a completed step
\* has persisted all of its records and nothing else, a failed step has
\* changed no table, and either way the session holds nothing uncommitted.
C9_BatchAtomic ==
    [][ now' = now =>
        /\ session' = {}
        /\ last'.outcome # "ok" => UNCHANGED db
        /\ (last'.outcome = "ok" /\ last'.op = "add_customers") =>
              /\ Len(Customer') = Len(Customer) + NumCustomers
              /\ SubSeq(Customer', 1, Len(Customer)) = Customer
              /\ UNCHANGED <<Order, Product, order_product>>
        /\ (last'.outcome = "ok" /\ last'.op = "add_orders") =>
              /\ Len(Order') = Len(Order) + NumOrders
              /\ SubSeq(Order', 1, Len(Order)) = Order
              /\ UNCHANGED <<Customer, Product, order_product>>
        /\ (last'.outcome = "ok" /\ last'.op = "add_products") =>
              /\ Len(Product') = Len(Product) + NumProducts
              /\ SubSeq(Product', 1, Len(Product)) = Product
              /\ UNCHANGED <<Customer, Order, order_product>>
        /\ (last'.outcome = "ok" /\ last'.op = "add_order_products") =>
              /\ order_product \sqsubseteq order_product'
              /\ \A o \in DOMAIN Order : RowCount(order_product', o) >= MinK
              /\ UNCHANGED <<Customer, Order, Product>>
        /\ last'.op = "create_all" => UNCHANGED db
      ]_vars

\* add_products has failed on a duplicate name, after earlier steps committed
C9_Witness ==
    /\ last = [op |-> "add_products", outcome |-> "IntegrityError"]
    /\ Customer # <<>>
    /\ Order # <<>>
    /\ Product = <<>>

\* C10: the persisted data is referentially valid after any sequence of
\* generator operations: every order names an existing customer, every
\* association row an existing order and an existing product, no association
\* row occurs twice, no two customers share an email and no two products a
\* name.
C10_ReferentiallyValid ==
    /\ \A i \in DOMAIN Order : Order[i].customer_id \in DOMAIN Customer
    /\ \A r \in BagToSet(order_product) \cup session :
          /\ r[1] \in DOMAIN Order
          /\ r[2] \in DOMAIN Product
    /\ \A r \in BagToSet(order_product) : CopiesIn(r, order_product) = 1
    /\ \A i, j \in DOMAIN Customer :
          Customer[i].email = Customer[j].email => i = j
    /\ \A i, j \in DOMAIN Product :
          Product[i].name = Product[j].name => i = j

\* every table filled, right after a batch was refused
C10_Witness ==
    /\ last.outcome = "IntegrityError"
    /\ Len(Customer) = NumCustomers
    /\ Order # <<>>
    /\ Product # <<>>
    /\ order_product # EmptyBag

\* ---- the query claims, stated over the tables themselves ----

RECURSIVE Total(_, _)
Total(S, f) ==
    IF S = {} THEN 0
    ELSE LET x == CHOOSE y \in S : TRUE
         IN  f[x] + Total(S \ {x}, f)

Pairs == (DOMAIN Order) \X (DOMAIN Product)

\* the price of product p, once per association row (o, p)
RowPrice == [r \in Pairs |-> CopiesIn(r, order_product) * Product[r[2]].price]

Attached(S) == {r \in S : CopiesIn(r, order_product) > 0}

PairsOfCustomer(c) == {r \in Pairs : Order[r[1]].customer_id = c}

PairsAfter(day) == {r \in Pairs : Order[r[1]].order_date > day}

NoRepeats(seq) == \A i, j \in DOMAIN seq : seq[i] = seq[j] => i = j

C6_AsStated ==
    printed.query = "revenue_in_last_x_days" =>
        printed.out = <<Total(PairsAfter(now - printed.arg), RowPrice)>>

\* C6 amended: when at least one association row belongs to an order dated
\* strictly after now - n days, revenue_in_last_x_days(n) is the sum of
\* those rows' prices; when none does, it is None, not 0.
C6_RevenueOrNone ==
    printed.query = "revenue_in_last_x_days" =>
        IF Attached(PairsAfter(now - printed.arg)) = {}
        THEN printed.out = <<>>
        ELSE printed.out = <<Total(PairsAfter(now - printed.arg), RowPrice)>>

\* a revenue that counts one order and leaves out one dated exactly now - n
C6_Witness ==
    /\ printed.query = "revenue_in_last_x_days"
    /\ printed.out # <<>>
    /\ \E r \in Attached(Pairs) : Order[r[1]].order_date = now - printed.arg
    /\ printed.out[1] < Total(Pairs, RowPrice)

\* C7: get_pending_orders returns exactly the orders without a shipped date,
\* each once, every result's order date >= that of the result after it.
C7_PendingSorted ==
    printed.query = "get_pending_orders" =>
        /\ Range(printed.out) =
              {o \in DOMAIN Order : Order[o].shipped_date = None}
        /\ NoRepeats(printed.out)
        /\ \A i \in 1..(Len(printed.out) - 1) :
              Order[printed.out[i]].order_date
                 >= Order[printed.out[i + 1]].order_date

\* two pending orders returned newest first, against their order of insertion
C7_Witness ==
    /\ printed.query = "get_pending_orders"
    /\ printed.out = <<2, 1>>
    /\ Order[2].order_date > Order[1].order_date
====
